---------------------------- MODULE Spec2Model ----------------------------
(***************************************************************************)
(* A model of show_py/show.py: the show() debug printer and its three      *)
(* label-recovery strategies (IPython history, static source, value        *)
(* matching).  One call of show is one run of the state machine            *)
(*   TryHistory -> TryStatic -> TryFallback -> Render -> Done | Raised.    *)
(* Texts (labels, names) are sequences of one-character strings.           *)
(***************************************************************************)
EXTENDS Integers, Sequences, FiniteSets, TLC

VARIABLES
    pc,             \* position inside show(): TryHistory .. Done, or Raised
    values,         \* the positional values show received
    frame,          \* the caller's frame: f_lineno, f_locals, its file, the call site
    ipython,        \* the ambient IPython environment (sys.modules / history)
    exprs,          \* show's local exprs: the labels recovered so far
    acquired,       \* what _get_source_code returned: via, fragment, offset, parse outcome
    out,            \* lines printed so far, each <<label, repr>>
    ret,            \* the value show returned
    raised,         \* the exception that left show(), "none" if none
    ran             \* the strategies run so far, in order

vars == <<pc, values, frame, ipython, exprs, acquired, out, ret, raised, ran>>

---------------------------------------------------------------------------
(* Bounds of the model. *)

MaxValues == 2      \* most values one unpacked (starred) argument contributes,
                    \* and most values of a call with no source
MaxArgs == 2        \* most source arguments of one call node
MaxNodes == 2       \* most nodes (besides the Module root) of a source tree

---------------------------------------------------------------------------
(* Texts. *)

Placeholder == <<"<expression>">>

Blank == " "

RECURSIVE LStrip(_)
LStrip(t) == IF t # <<>> /\ Head(t) = Blank THEN LStrip(Tail(t)) ELSE t

RECURSIVE RStrip(_)
RStrip(t) ==
    IF t # <<>> /\ t[Len(t)] = Blank THEN RStrip(SubSeq(t, 1, Len(t) - 1)) ELSE t

\* str.strip()
Strip(t) == RStrip(LStrip(t))

\* name.startswith('_')
StartsWithUnderscore(name) == name # <<>> /\ Head(name) = "_"

---------------------------------------------------------------------------
(* Python objects: an object is a record; two records are the same object  *)
(* (the `is` test) iff they are equal, id telling apart equal objects.     *)

IntA  == [id |-> "a", kind |-> "int",  val |-> "1"]
IntB  == [id |-> "b", kind |-> "int",  val |-> "1"]   \* equal to IntA, another object
IntC  == [id |-> "c", kind |-> "int",  val |-> "2"]
ListA == [id |-> "a", kind |-> "list", val |-> "1"]
ListB == [id |-> "b", kind |-> "list", val |-> "1"]   \* equal to ListA, another object
Bad   == [id |-> "a", kind |-> "bad",  val |-> "0"]   \* its __eq__ raises

Objects == {IntA, IntB, IntC, ListA, ListB, Bad}

\* isinstance(val, (int, float, str, bool, type(None)))
ElementaryKinds == {"int", "float", "str", "bool", "none"}
IsElementary(val) == val.kind \in ElementaryKinds

\* var_val is val
Is(var_val, val) == var_val = val

\* var_val == val, evaluated by var_val.__eq__: "raise" when that raises
PyEq(var_val, val) ==
    IF var_val.kind = "bad" THEN "raise"
    ELSE IF var_val.kind = val.kind /\ var_val.val = val.val THEN "true"
    ELSE "false"

\* repr(val): depends on the kind and the content, not on the identity
Repr(val) == <<val.kind, val.val>>

---------------------------------------------------------------------------
(* Syntax trees.  A tree is a sequence of nodes; node 0, not in the        *)
(* sequence, is the Module root and node i's parent is tree[i].parent < i. *)
(* A Call node has func (an ast.Name, an ast.Attribute or something else), *)
(* lineno (relative to the text that was parsed) and args, each argument   *)
(* carrying the source text its position information selects.              *)

\* the children of node n in source order (ast.iter_child_nodes)
Children(tree, n) ==
    SelectSeq([i \in 1..Len(tree) |-> i], LAMBDA i : tree[i].parent = n)

RECURSIVE WalkQueue(_, _)
WalkQueue(tree, todo) ==
    IF todo = <<>> THEN <<>>
    ELSE <<Head(todo)>> \o WalkQueue(tree, Tail(todo) \o Children(tree, Head(todo)))

\* ast.walk(tree): breadth first from the root, the root included
Walk(tree) == WalkQueue(tree, <<0>>)

NoName == <<>>

_get_function_name(node) ==
    IF node.func.kind = "Name" THEN node.func.id
    ELSE IF node.func.kind = "Attribute" THEN node.func.attr
    ELSE NoName

\* ast.get_source_segment(source, arg): <<>> stands for None
get_source_segment(arg) == arg.text

\* the loop over node.args: every recoverable argument text, stripped
RECURSIVE ArgExprs(_)
ArgExprs(args) ==
    IF args = <<>> THEN <<>>
    ELSE LET expr_str == get_source_segment(Head(args))
         IN  (IF expr_str # <<>> THEN <<Strip(expr_str)>> ELSE <<>>)
             \o ArgExprs(Tail(args))

\* target_lineno is [some |-> FALSE] for None, else [some |-> TRUE, v |-> line]
NoLine == [some |-> FALSE, v |-> 0]
Line(n) == [some |-> TRUE, v |-> n]

IsTargetCall(tree, n, target_func, target_lineno, lineno_offset) ==
    /\ n # 0
    /\ tree[n].type = "Call"
    /\ _get_function_name(tree[n]) = target_func
    /\ (~target_lineno.some \/ tree[n].lineno + lineno_offset = target_lineno.v)

RECURSIVE ExtractFrom(_, _, _, _, _)
ExtractFrom(tree, order, target_func, target_lineno, lineno_offset) ==
    IF order = <<>> THEN <<>>
    ELSE LET found == IF IsTargetCall(tree, Head(order), target_func,
                                      target_lineno, lineno_offset)
                      THEN ArgExprs(tree[Head(order)].args)
                      ELSE <<>>
         IN  IF found # <<>> THEN found
             ELSE ExtractFrom(tree, Tail(order), target_func,
                              target_lineno, lineno_offset)

ShowName == <<"s", "h", "o", "w">>

_extract_expressions_from_ast(tree, target_lineno, lineno_offset) ==
    ExtractFrom(tree, Walk(tree), ShowName, target_lineno, lineno_offset)

---------------------------------------------------------------------------
(* Strategy 1: the IPython input history.                                  *)
(* ipython = [loaded, ip, has_hm, range]: whether sys.modules holds        *)
(* IPython, whether get_ipython() returns a shell, whether the shell has a *)
(* history_manager, and what get_range(session) yields.  A history entry   *)
(* is a tuple; its third field is the input text, a record                 *)
(* [empty, has_show, parses, tree]: whether the text is '', whether        *)
(* 'show(' occurs in it, whether ast.parse accepts it, and its tree.       *)

\* the body of the try block: [exc, val]
HistoryBody(env) ==
    IF ~env.loaded THEN [exc |-> "none", val |-> <<>>]
    ELSE IF ~env.ip \/ ~env.has_hm THEN [exc |-> "none", val |-> <<>>]
    ELSE LET history_range == env.range IN
    IF history_range = <<>> THEN [exc |-> "none", val |-> <<>>]
    ELSE LET last_cmd == history_range[Len(history_range)] IN
    IF Len(last_cmd) = 0 \/ Len(last_cmd) < 3 THEN [exc |-> "none", val |-> <<>>]
    ELSE LET source == last_cmd[3] IN
    IF source.empty \/ ~source.has_show THEN [exc |-> "none", val |-> <<>>]
    ELSE IF ~source.parses THEN [exc |-> "SyntaxError", val |-> <<>>]
    ELSE [exc |-> "none",
          val |-> _extract_expressions_from_ast(source.tree, NoLine, 0)]

\* a plausible slip: no except clause around the body
TryHistoryUncaught(env) == HistoryBody(env)

\* try: ... except Exception: return []
_try_ipython_history(env) ==
    LET r == HistoryBody(env)
    IN  [exc |-> "none", val |-> IF r.exc # "none" THEN <<>> ELSE r.val]

---------------------------------------------------------------------------
(* Strategy 2: the caller's source.                                        *)
(* frame = [level, defline, file, site, f_lineno, inspectable, filename,   *)
(* f_locals].  file is the tree of the caller's file with absolute line    *)
(* numbers.  A function-level frame belongs to a function whose def is on  *)
(* line defline, all nodes of the file lying in its body.                  *)

\* the text a tree was parsed from starts shift lines below the file's top
Shifted(tree, shift) ==
    [i \in 1..Len(tree) |-> [tree[i] EXCEPT !.lineno = tree[i].lineno - shift]]

\* inspect.getsourcelines(frame): (the block's lines, its first line); the
\* whole file and 0 for a module-level frame
getsourcelines(f) ==
    IF ~f.inspectable THEN [exc |-> "OSError"]
    ELSE IF f.level = "module"
    THEN [exc |-> "none", source |-> f.file, first_line |-> 0]
    ELSE [exc |-> "none", source |-> Shifted(f.file, f.defline - 1),
          first_line |-> f.defline]

\* with open(filename) as f: f.read(), read being what the file system does
ReadOutcomes == {"ok", "OSError", "UnicodeDecodeError"}

FileStdin  == <<"<", "stdin", ">">>
FileString == <<"<", "string", ">">>
FilePath   == <<"m", ".", "py">>

IsRealPath(filename) ==
    filename # <<>> /\ filename # FileStdin /\ Head(filename) # "<"

NoSource == [exc |-> "none", via |-> "none", source |-> <<>>, offset |-> 0]

\* _get_source_code(frame): [exc, via, source, offset]; via "none" is (None, 0)
_get_source_code(f, read) ==
    LET a == getsourcelines(f)
    IN  IF a.exc = "none"
        THEN [exc |-> "none", via |-> "getsourcelines",
              source |-> a.source, offset |-> a.first_line - 1]
        ELSE IF IsRealPath(f.filename) /\ read = "ok"
        THEN [exc |-> "none", via |-> "read", source |-> f.file, offset |-> 0]
        ELSE IF IsRealPath(f.filename) /\ read # "OSError"
        THEN [exc |-> read, via |-> "none", source |-> <<>>, offset |-> 0]
        \* inspect.getsource(frame) and inspect.getsource(frame.f_code) look the
        \* source up as getsourcelines did, and raise OSError as it did
        ELSE NoSource

---------------------------------------------------------------------------
(* Strategy 3: matching the values against the caller's locals.            *)
(* local_vars is the mapping in its iteration order: a sequence of         *)
(* [name, val] with distinct names.                                        *)

\* the first loop: the first name bound to the very object, <<>> if none
RECURSIVE IdentityMatch(_, _)
IdentityMatch(val, local_vars) ==
    IF local_vars = <<>> THEN <<>>
    ELSE IF Is(Head(local_vars).val, val) THEN <<Head(local_vars).name>>
    ELSE IdentityMatch(val, Tail(local_vars))

\* the second loop: [exc, name]; isinstance(...) and var_val == val and
\* not name.startswith('_'), evaluated left to right
RECURSIVE EqualityMatch(_, _)
EqualityMatch(val, local_vars) ==
    IF local_vars = <<>> THEN [exc |-> "none", name |-> <<>>]
    ELSE IF ~IsElementary(val) THEN EqualityMatch(val, Tail(local_vars))
    ELSE LET eq == PyEq(Head(local_vars).val, val) IN
         IF eq = "raise" THEN [exc |-> "Exception", name |-> <<>>]
         ELSE IF eq = "true" /\ ~StartsWithUnderscore(Head(local_vars).name)
         THEN [exc |-> "none", name |-> <<Head(local_vars).name>>]
         ELSE EqualityMatch(val, Tail(local_vars))

\* a plausible slip: one loop that takes the first name identical or equal
RECURSIVE MatchOneSinglePass(_, _)
MatchOneSinglePass(val, local_vars) ==
    IF local_vars = <<>> THEN [exc |-> "none", name |-> Placeholder]
    ELSE IF Is(Head(local_vars).val, val)
    THEN [exc |-> "none", name |-> Head(local_vars).name]
    ELSE IF ~IsElementary(val) THEN MatchOneSinglePass(val, Tail(local_vars))
    ELSE LET eq == PyEq(Head(local_vars).val, val) IN
         IF eq = "raise" THEN [exc |-> "Exception", name |-> <<>>]
         ELSE IF eq = "true" /\ ~StartsWithUnderscore(Head(local_vars).name)
         THEN [exc |-> "none", name |-> Head(local_vars).name]
         ELSE MatchOneSinglePass(val, Tail(local_vars))

\* a plausible slip: the equality pass without the underscore test
RECURSIVE EqualityAnyName(_, _)
EqualityAnyName(val, local_vars) ==
    IF local_vars = <<>> THEN [exc |-> "none", name |-> <<>>]
    ELSE IF ~IsElementary(val) THEN EqualityAnyName(val, Tail(local_vars))
    ELSE LET eq == PyEq(Head(local_vars).val, val) IN
         IF eq = "raise" THEN [exc |-> "Exception", name |-> <<>>]
         ELSE IF eq = "true"
         THEN [exc |-> "none", name |-> <<Head(local_vars).name>>]
         ELSE EqualityAnyName(val, Tail(local_vars))

MatchOneAnyName(val, local_vars) ==
    LET byId == IdentityMatch(val, local_vars) IN
    IF byId # <<>> THEN [exc |-> "none", name |-> byId[1]]
    ELSE LET byEq == EqualityAnyName(val, local_vars) IN
         IF byEq.exc # "none" THEN [exc |-> byEq.exc, name |-> <<>>]
         ELSE IF byEq.name # <<>> THEN [exc |-> "none", name |-> byEq.name[1]]
         ELSE [exc |-> "none", name |-> Placeholder]

\* the body of the loop over values: [exc, name]
MatchOne(val, local_vars) ==
    LET byId == IdentityMatch(val, local_vars) IN
    IF byId # <<>> THEN [exc |-> "none", name |-> byId[1]]
    ELSE LET byEq == EqualityMatch(val, local_vars) IN
         IF byEq.exc # "none" THEN [exc |-> byEq.exc, name |-> <<>>]
         ELSE IF byEq.name # <<>> THEN [exc |-> "none", name |-> byEq.name[1]]
         ELSE [exc |-> "none", name |-> Placeholder]

\* _match_variables_to_values(values, local_vars): [exc, val]
RECURSIVE _match_variables_to_values(_, _)
_match_variables_to_values(vals, local_vars) ==
    IF vals = <<>> THEN [exc |-> "none", val |-> <<>>]
    ELSE LET m == MatchOne(Head(vals), local_vars) IN
         IF m.exc # "none" THEN [exc |-> m.exc, val |-> <<>>]
         ELSE LET rest == _match_variables_to_values(Tail(vals), local_vars) IN
              IF rest.exc # "none" THEN rest
              ELSE [exc |-> "none", val |-> <<m.name>> \o rest.val]

---------------------------------------------------------------------------
(* The orchestrator show, called with values, one action per strategy. *)

\* ast.parse(source): what the parser does with the acquired text
ParseOutcomes == {"ok", "SyntaxError", "ValueError"}

NotAcquired == [via |-> "none", source |-> <<>>, offset |-> 0, parse |-> "none"]

\* lines 232-243: [exc, acquired, val]
StaticLookup(f, read, parse) ==
    LET g == _get_source_code(f, read) IN
    IF g.exc # "none" THEN [exc |-> g.exc, acquired |-> NotAcquired, val |-> <<>>]
    ELSE IF g.via = "none" THEN [exc |-> "none", acquired |-> NotAcquired, val |-> <<>>]
    ELSE [exc |-> "none",
          acquired |-> [via |-> g.via, source |-> g.source,
                        offset |-> g.offset, parse |-> parse],
          val |-> IF parse = "ok"
                  THEN _extract_expressions_from_ast(g.source, Line(f.f_lineno),
                                                     g.offset)
                  ELSE <<>>]

\* while len(exprs) < len(values): exprs.append("<expression>")
RECURSIVE Pad(_, _)
Pad(labels, n) == IF Len(labels) < n THEN Pad(Append(labels, Placeholder), n) ELSE labels

Min(a, b) == IF a < b THEN a ELSE b

\* for expr, val in zip(exprs, values): print(f"{expr} = {val!r}")
PrintedLines(labels, vals) ==
    [i \in 1..Min(Len(labels), Len(vals)) |-> <<labels[i], Repr(vals[i])>>]

NoReturn == [kind |-> "none", v |-> <<>>]

\* a plausible slip: always the tuple
ReturnTuple(vals) == [kind |-> "tuple", v |-> vals]

\* if len(values) == 1: return values[0]; return values
ReturnValue(vals) ==
    IF Len(vals) = 1 THEN [kind |-> "value", v |-> vals[1]]
    ELSE [kind |-> "tuple", v |-> vals]

TryHistory ==
    /\ pc = "TryHistory"
    /\ LET r == _try_ipython_history(ipython) IN
        /\ raised' = r.exc
        /\ exprs' = r.val
        /\ pc' = IF r.exc # "none" THEN "Raised"
                 ELSE IF r.val # <<>> THEN "Render" ELSE "TryStatic"
    /\ ran' = Append(ran, "history")
    /\ UNCHANGED <<values, frame, ipython, acquired, out, ret>>

TryStatic ==
    /\ pc = "TryStatic"
    /\ \E read \in ReadOutcomes, parse \in ParseOutcomes :
        LET r == StaticLookup(frame, read, parse) IN
        /\ raised' = r.exc
        /\ acquired' = r.acquired
        /\ exprs' = r.val
        /\ pc' = IF r.exc # "none" THEN "Raised"
                 ELSE IF r.val # <<>> THEN "Render" ELSE "TryFallback"
    /\ ran' = Append(ran, "static")
    /\ UNCHANGED <<values, frame, ipython, out, ret>>

TryFallback ==
    /\ pc = "TryFallback"
    /\ LET r == _match_variables_to_values(values, frame.f_locals) IN
        /\ raised' = r.exc
        /\ exprs' = r.val
        /\ pc' = IF r.exc # "none" THEN "Raised" ELSE "Render"
    /\ ran' = Append(ran, "match")
    /\ UNCHANGED <<values, frame, ipython, acquired, out, ret>>

Render ==
    /\ pc = "Render"
    /\ exprs' = Pad(exprs, Len(values))
    /\ out' = out \o PrintedLines(exprs', values)
    /\ ret' = ReturnValue(values)
    /\ pc' = "Done"
    /\ ran' = Append(ran, "render")
    /\ UNCHANGED <<values, frame, ipython, acquired, raised>>

Next == TryHistory \/ TryStatic \/ TryFallback \/ Render

---------------------------------------------------------------------------
(* The calls the model is run on.                                          *)

FuncShow  == [kind |-> "Name", id |-> ShowName, attr |-> <<>>]          \* show(...)
FuncAttr  == [kind |-> "Attribute", id |-> <<"o">>, attr |-> ShowName]  \* o.show(...)
FuncPlain == [kind |-> "Name", id |-> <<"f">>, attr |-> <<>>]           \* f(...)
FuncOther == [kind |-> "Other", id |-> <<>>, attr |-> <<>>]             \* fs[0](...)

\* the source text of argument j of node i, unique in its file
ArgText(i, j, starred) ==
    (IF starred THEN <<"*">> ELSE <<>>) \o <<"e", ToString(i), ToString(j)>>

PlainArgs(i, nargs) == [j \in 1..nargs |-> [text |-> ArgText(i, j, FALSE)]]

\* the shapes of one node: a non-call node, or a call of one of the funcs
NodeShapes(relLines) ==
    [type : {"Other"}, func : {FuncOther}, rel : relLines, nargs : {0}]
    \cup [type : {"Call"}, func : {FuncShow, FuncAttr}, rel : relLines,
          nargs : 0..MaxArgs]
    \cup [type : {"Call"}, func : {FuncPlain, FuncOther}, rel : relLines,
          nargs : {1}]

\* the trees of n nodes in source order, lines relative to base
TreesOfSize(n, relLines, base) ==
    { [i \in 1..n |-> [parent |-> p[i], type |-> c[i].type, func |-> c[i].func,
                       lineno |-> base + c[i].rel,
                       args |-> PlainArgs(i, c[i].nargs)]] :
        <<p, c>> \in { pc2 \in [1..n -> 0..(n - 1)] \X [1..n -> NodeShapes(relLines)] :
                         /\ \A i \in 1..n : pc2[1][i] < i
                         \* a node starts no earlier than its parent, and no
                         \* earlier than the siblings before it
                         /\ \A i \in 1..n : pc2[1][i] # 0 =>
                                pc2[2][pc2[1][i]].rel <= pc2[2][i].rel
                         /\ \A i, j \in 1..n : i < j /\ pc2[1][i] = pc2[1][j] =>
                                pc2[2][i].rel <= pc2[2][j].rel } }

\* how one source argument is evaluated: plainly, to one value, or starred,
\* to as many values as the unpacked iterable holds
ArgPlans == {[starred |-> FALSE, n |-> 1]}
            \cup {[starred |-> TRUE, n |-> k] : k \in 0..MaxValues}

RECURSIVE Provenance(_, _)
Provenance(plan, j) ==
    IF j > Len(plan) THEN <<>>
    ELSE [k \in 1..plan[j].n |-> j] \o Provenance(plan, j + 1)

\* the show calls of a tree
ShowCalls(tree) ==
    {i \in 1..Len(tree) : tree[i].type = "Call" /\ _get_function_name(tree[i]) = ShowName}

\* the file with the arguments of the running call written as its plan says
WithPlan(tree, site, plan) ==
    [tree EXCEPT ![site].args =
        [j \in 1..Len(plan) |-> [text |-> ArgText(site, j, plan[j].starred)]]]

\* the local mappings over names: sequences of bindings with distinct names
LocalsOver(names, objs) ==
    UNION { { l \in [1..n -> [name : names, val : objs]] :
                \A i, j \in 1..n : i # j => l[i].name # l[j].name } :
            n \in 0..Cardinality(names) }

\* calls from a file: level, defline and tree given, every show call of the
\* tree as the running call, every plan of its arguments; valuesOf[n] is the
\* set of value tuples of length n to run on
FileCalls(level, defline, trees, sources, localsSet, valuesOf) ==
    { [frame |-> [level |-> level, defline |-> defline,
                  file |-> WithPlan(c[1].t, c[1].site, c[1].plan),
                  site |-> c[1].site,
                  prov |-> Provenance(c[1].plan, 1),
                  f_lineno |-> c[1].t[c[1].site].lineno,
                  inspectable |-> c[2].inspectable, filename |-> c[2].filename,
                  f_locals |-> c[3]],
        values |-> c[4]] :
        c \in UNION { UNION { UNION {
                  {[t |-> t, site |-> site, plan |-> plan]} \X sources \X localsSet
                      \X valuesOf[Len(Provenance(plan, 1))] :
                  plan \in [1..Len(t[site].args) -> ArgPlans] } :
                site \in ShowCalls(t) } :
              t \in trees } }

\* calls with no file behind them (the plain REPL, exec of a string)
BareCalls(filenames, localsSet, valuesOf) ==
    { [frame |-> [level |-> "module", defline |-> 0, file |-> <<>>, site |-> 0,
                  prov |-> <<>>, f_lineno |-> 1,
                  inspectable |-> FALSE, filename |-> fn, f_locals |-> loc],
        values |-> vs] :
        <<fn, loc, vs>> \in
          UNION { filenames \X localsSet \X valuesOf[n] : n \in 0..MaxValues } }

NoIPython == [loaded |-> FALSE, ip |-> FALSE, has_hm |-> FALSE, range |-> <<>>]

InitOf(calls, ipythons) ==
    /\ pc = "TryHistory"
    /\ \E c \in calls : frame = c.frame /\ values = c.values
    /\ ipython \in ipythons
    /\ exprs = <<>>
    /\ acquired = NotAcquired
    /\ out = <<>>
    /\ ret = NoReturn
    /\ raised = "none"
    /\ ran = <<>>

---------------------------------------------------------------------------
(* The specifications: one next-state relation, the inputs of each chosen  *)
(* for the part of show it exercises.                                      *)

Names == {<<"x">>, <<"_", "y">>}
RelLines == {1, 2}
DefLines == {1, 2}

Inspectable == [inspectable |-> TRUE, filename |-> FilePath]
OnDiskOnly  == [inspectable |-> FALSE, filename |-> FilePath]
ExecString  == [inspectable |-> FALSE, filename |-> FileString]

\* history texts
TextEmpty   == [empty |-> TRUE, has_show |-> FALSE, parses |-> TRUE, tree |-> <<>>]
TextNoShow  == [empty |-> FALSE, has_show |-> FALSE, parses |-> TRUE, tree |-> <<>>]
TextBroken  == [empty |-> FALSE, has_show |-> TRUE, parses |-> FALSE, tree |-> <<>>]
TextOf(tree) == [empty |-> FALSE, has_show |-> TRUE, parses |-> TRUE, tree |-> tree]

\* a cell holding one call, on its first line
CellTrees == TreesOfSize(1, {1}, 0)

Entry(text) == <<1, 1, text>>
Shell(range) == [loaded |-> TRUE, ip |-> TRUE, has_hm |-> TRUE, range |-> range]

\* the most values one call receives
MostValues == MaxArgs * MaxValues

\* every tuple of n objects
AllValues == [n \in 0..MostValues |-> [1..n -> Objects]]

\* one tuple of n objects, neighbours differing
SomeValues ==
    [n \in 0..MostValues |-> {[i \in 1..n |-> IF i % 2 = 1 THEN IntA ELSE IntC]}]

\* the matcher: no history, no source, every mapping and every tuple of values
InitMatch ==
    InitOf(BareCalls({FileStdin}, LocalsOver(Names, Objects), AllValues), {NoIPython})

SpecMatch == InitMatch /\ [][Next]_vars

\* the static extractor on function-level frames
InitFunction ==
    InitOf(FileCalls("function", 2,
                     UNION {TreesOfSize(n, RelLines, 2) : n \in 1..MaxNodes},
                     {Inspectable, OnDiskOnly}, {<<>>}, SomeValues),
           {NoIPython})

SpecFunction == InitFunction /\ [][Next]_vars

\* source acquisition on function-level and module-level frames
InitFile ==
    InitOf(UNION { FileCalls("function", d, TreesOfSize(1, RelLines, d),
                             {Inspectable, OnDiskOnly}, {<<>>}, SomeValues) :
                   d \in DefLines }
           \cup FileCalls("module", 0,
                          UNION {TreesOfSize(n, RelLines, 0) : n \in 1..MaxNodes},
                          {Inspectable, OnDiskOnly}, {<<>>}, SomeValues),
           {NoIPython})

SpecFile == InitFile /\ [][Next]_vars

\* the history extractor: every environment, every range of entries
MaxHist == 2

Entries ==
    {<<>>, <<1, 1>>, Entry(TextEmpty), Entry(TextNoShow), Entry(TextBroken)}
    \cup {Entry(TextOf(t)) : t \in CellTrees}

Ranges == UNION {[1..n -> Entries] : n \in 0..MaxHist}

IPythons ==
    {NoIPython,
     [loaded |-> TRUE, ip |-> FALSE, has_hm |-> FALSE, range |-> <<>>],
     [loaded |-> TRUE, ip |-> TRUE, has_hm |-> FALSE, range |-> <<>>]}
    \cup {Shell(r) : r \in Ranges}

\* the one-line function body  show(e11)  under a def on line 1
OneCall ==
    <<[parent |-> 0, type |-> "Call", func |-> FuncShow, lineno |-> 2,
       args |-> PlainArgs(1, 1)]>>

InitHistory ==
    InitOf(FileCalls("function", 1, {OneCall}, {Inspectable, ExecString},
                     {<<>>}, SomeValues),
           IPythons)

SpecHistory == InitHistory /\ [][Next]_vars

\* show as a whole: every strategy may win, fail or raise
ShowCells == {t \in CellTrees : t[1].func = FuncShow}

InitShow ==
    InitOf(FileCalls("function", 1, TreesOfSize(1, {1}, 1),
                     {Inspectable, OnDiskOnly, ExecString},
                     LocalsOver({<<"x">>}, {IntA, Bad}), SomeValues)
           \cup BareCalls({FileStdin}, LocalsOver({<<"x">>}, {IntA, Bad}), SomeValues),
           {NoIPython, Shell(<<>>), Shell(<<Entry(TextBroken)>>)}
           \cup {Shell(<<Entry(TextOf(t))>>) : t \in ShowCells})

Init == InitShow

Spec == Init /\ [][Next]_vars

---------------------------------------------------------------------------
(* The claims.                                                             *)

Last(q) == q[Len(q)]

Returned == pc = "Done"
Ended == pc \in {"Done", "Raised"}

\* the matcher has just returned its labels
MatcherReturned == pc = "Render" /\ ran # <<>> /\ Last(ran) = "match"

\* the labels came from the static extractor
StaticLabels == ran = <<"history", "static", "render">>

\* C1: whichever strategy supplied the labels, a call that returns returns
\* its one value itself when it got exactly one, and otherwise the tuple of
\* its values in their order; a call with no values prints nothing and
\* returns the empty tuple.
C1_ReturnContract ==
    /\ (Len(values) = 0 => out = <<>>)
    /\ Returned =>
        /\ (Len(values) = 1 => ret = [kind |-> "value", v |-> values[1]])
        /\ (Len(values) # 1 => ret = [kind |-> "tuple", v |-> values])

\* C1 witness: a call with one value, labelled by the static extractor, has
\* returned that value.
C1_Witness ==
    /\ Returned /\ StaticLabels
    /\ Len(values) = 1 /\ ret.kind = "value" /\ ret.v = IntA

\* C2: every call prints exactly one line per value, line i pairing label i
\* (the placeholder where the strategy recovered fewer labels) with the
\* repr of value i.
C2_OneLinePerValue ==
    Ended =>
        /\ Len(out) = Len(values)
        /\ \A i \in 1..Len(values) : out[i] = <<exprs[i], Repr(values[i])>>

\* The output of a call that returns is one line per value, the labels
\* beyond the recovered ones being placeholders.
RenderedOnReturn ==
    /\ Returned => /\ Len(out) = Len(values)
                   /\ \A i \in 1..Len(values) : out[i] = <<exprs[i], Repr(values[i])>>
    /\ pc = "Render" =>
           \A i \in 1..Len(values) :
               Pad(exprs, Len(values))[i] =
                   IF i <= Len(exprs) THEN exprs[i] ELSE Placeholder

\* C3: with no history facility, a single-value call  show(e)  whose source
\* was obtained and parsed prints the text of its own argument e with the
\* repr of the value, and returns the value.
C3_OwnArgument ==
    (/\ Returned
     /\ ~ipython.loaded
     /\ acquired.via # "none" /\ acquired.parse = "ok"
     /\ Len(frame.file[frame.site].args) = 1 /\ frame.prov = <<1>>)
    => /\ out = << <<frame.file[frame.site].args[1].text, Repr(values[1])>> >>
       /\ ret = [kind |-> "value", v |-> values[1]]

\* C4: in a multi-value call labelled by the static extractor, the label on
\* line i is the source text of the argument that produced value i.
C4_LabelsFollowArguments ==
    (Returned /\ StaticLabels /\ Len(values) >= 2)
    => \A i \in 1..Len(values) :
           /\ i <= Len(out)
           /\ out[i][1] = frame.file[frame.site].args[frame.prov[i]].text

\* the order of the strategies: history, then static, then matching, each
\* at most once, a later one only after the earlier ones returned nothing
PipelineOrder ==
    /\ ran \in {<<>>, <<"history">>, <<"history", "render">>,
                <<"history", "static">>, <<"history", "static", "render">>,
                <<"history", "static", "match">>,
                <<"history", "static", "match", "render">>}
    /\ (pc \in {"TryStatic", "TryFallback"} => exprs = <<>>)
    /\ (pc = "TryStatic" => ran = <<"history">>)
    /\ (pc = "TryFallback" => ran = <<"history", "static">>)
    /\ (ran # <<>> /\ Last(ran) \in {"history", "static"} /\ exprs # <<>>
            => pc = "Render")

\* C5: the strategies run in the order history, static, matching, the first
\* to return labels wins and no later one runs, matching runs exactly when
\* both others returned nothing, and every call reaches Render once.
C5_PipelineReachesRender ==
    /\ PipelineOrder
    /\ (Ended => Len(SelectSeq(ran, LAMBDA x : x = "render")) = 1)

\* C6: no exception raised inside a label-recovery strategy leaves show.
C6_NothingEscapes == raised = "none" /\ pc # "Raised"

\* the degraded environments: no IPython, no shell, no history manager, an
\* empty range, a malformed last entry, a last text without 'show(' or
\* that does not parse
Degraded(env) ==
    \/ ~env.loaded \/ ~env.ip \/ ~env.has_hm
    \/ env.range = <<>>
    \/ Len(Last(env.range)) < 3
    \/ Last(env.range)[3].empty
    \/ ~Last(env.range)[3].has_show
    \/ ~Last(env.range)[3].parses

\* C7: in each of these cases the history extractor returns the empty list
\* and raises nothing, whatever the earlier entries of the range are, and
\* show goes on to the static-source strategy.
C7_HistoryDegrades ==
    (ran = <<"history">> /\ Degraded(ipython))
    => exprs = <<>> /\ raised = "none" /\ pc = "TryStatic"

\* C7 witness: the last entry does not parse, the entry before it is a cell
\* show(e11), and show has moved on to the static source with no labels.
C7_Witness ==
    /\ ran = <<"history">> /\ pc = "TryStatic" /\ exprs = <<>>
    /\ Len(ipython.range) = 2
    /\ ipython.range[2] = Entry(TextBroken)
    /\ Len(ipython.range[1]) = 3
    /\ ipython.range[1][3].parses /\ ipython.range[1][3].has_show
    /\ ipython.range[1][3].tree # <<>>
    /\ ipython.range[1][3].tree[1].func = FuncShow
    /\ Len(ipython.range[1][3].tree[1].args) = 1

\* C8: the text and offset the first acquisition strategy returns map every
\* call node's line to its line in the file.
C8_OffsetMapsLines ==
    acquired.via = "getsourcelines"
    => \A i \in 1..Len(acquired.source) :
           acquired.source[i].type = "Call"
           => acquired.source[i].lineno + acquired.offset = frame.file[i].lineno

\* the names bound to the very object val
IdentityNames(val, local_vars) ==
    {local_vars[j].name : j \in {k \in 1..Len(local_vars) : local_vars[k].val = val}}

\* the names an equality match may report for val
EqualityNames(val, local_vars) ==
    {local_vars[j].name :
        j \in {k \in 1..Len(local_vars) :
                 /\ val.kind \in {"int", "float", "str", "bool", "none"}
                 /\ local_vars[k].val.kind = val.kind
                 /\ local_vars[k].val.val = val.val
                 /\ Head(local_vars[k].name) # "_"}}

\* C9: a value that some local is bound to is reported under a name bound to
\* that very object, wherever merely equal locals stand in the mapping.
C9_IdentityFirst ==
    MatcherReturned =>
        \A i \in 1..Len(values) :
            IdentityNames(values[i], frame.f_locals) # {}
            => /\ i <= Len(exprs)
               /\ exprs[i] \in IdentityNames(values[i], frame.f_locals)

\* C9 witness: x is bound to an equal object and stands before _y, bound to
\* the value itself, and the value is reported as _y.
C9_Witness ==
    /\ MatcherReturned
    /\ values = <<IntA>>
    /\ frame.f_locals = <<[name |-> <<"x">>, val |-> IntB],
                          [name |-> <<"_", "y">>, val |-> IntA]>>
    /\ exprs = << <<"_", "y">> >>

\* C10: the matcher returns one label per value, each the name of a local
\* bound to the value itself, or the name without a leading underscore of a
\* local equal to a value of an elementary kind, or the placeholder.
C10_LabelsJustified ==
    MatcherReturned =>
        /\ Len(exprs) = Len(values)
        /\ \A i \in 1..Len(values) :
            \/ exprs[i] \in IdentityNames(values[i], frame.f_locals)
            \/ exprs[i] \in EqualityNames(values[i], frame.f_locals)
            \/ exprs[i] = Placeholder

\* C10 witness: _y and x are bound to objects equal to the first value, _y
\* first, and that value is reported as x; the second value, a list, gets
\* the placeholder.
C10_Witness ==
    /\ MatcherReturned
    /\ values = <<IntA, ListA>>
    /\ frame.f_locals = <<[name |-> <<"_", "y">>, val |-> IntB],
                          [name |-> <<"x">>, val |-> IntB]>>
    /\ exprs = << <<"x">>, Placeholder >>

===========================================================================
